---- MODULE Spec2Model ----
(***************************************************************************)
(* Model of the multiverse terminal client (labs/multiverse/src/main.rs):  *)
(* the room-list listen task, the per-room timeline tasks, the selection   *)
(* and room-subscription logic of the render loop, and the quit path.      *)
(***************************************************************************)
EXTENDS Integers, Sequences, FiniteSets, TLC

\* ---------------------------------------------------------------- bounds
MaxLen == 3          \* longest room list the service produces
MaxDiffs == 2        \* room-list diffs the service emits, all batches together
MaxTlDiffs == 2      \* timeline diffs the service emits, all rooms together
MaxTasks == 2        \* timeline tasks spawned
MaxKeys == 3         \* key presses handled by the render loop
MaxTimers == 2       \* calls of set_status_message

\* ------------------------------------------------------------ value sets
RoomIds == {"r1", "r2"}
TlValues == {"a"}
None == -1                       \* Option::None of an index / task id
NoRoom == "none"                 \* Option::None of a room id
NoHandle == [room |-> NoRoom, id |-> 0]
NoStatus == "none"               \* Option::None of the status message

Empty == <<"Empty", NoRoom>>
Filled(r) == <<"Filled", r>>
Invalidated(r) == <<"Invalidated", r>>

\* RoomListEntry::as_room_id: Filled and Invalidated carry an id, Empty none.
AsRoomId(entry) == IF entry[1] = "Empty" THEN NoRoom ELSE entry[2]

\* ------------------------------------------------------------ VectorDiff
PushBack(x) == [op |-> "PushBack", index |-> 0, value |-> x]
Insert(i, x) == [op |-> "Insert", index |-> i, value |-> x]
Set(i, x) == [op |-> "Set", index |-> i, value |-> x]
Remove(i) == [op |-> "Remove", index |-> i, value |-> Empty]
Clear == [op |-> "Clear", index |-> 0, value |-> Empty]

\* VectorDiff::apply on a vector. The services emit diffs computed from their
\* own vector, so the index of a diff is in range where it is applied.
ApplyDiff(d, v) ==
    CASE d.op = "PushBack" -> Append(v, d.value)
      [] d.op = "Insert" ->
            SubSeq(v, 1, d.index) \o <<d.value>> \o SubSeq(v, d.index + 1, Len(v))
      [] d.op = "Set" -> [v EXCEPT ![d.index + 1] = d.value]
      [] d.op = "Remove" -> SubSeq(v, 1, d.index) \o SubSeq(v, d.index + 2, Len(v))
      [] d.op = "Clear" -> <<>>

\* Whether the index of d is one VectorDiff::apply accepts on v; on any other
\* index the vector operation panics.
InRange(d, v) ==
    CASE d.op = "Insert" -> d.index <= Len(v)
      [] d.op \in {"Set", "Remove"} -> d.index < Len(v)
      [] OTHER -> TRUE

\* for diff in diffs { diff.apply(&mut rooms) }
RECURSIVE ApplyDiffs(_, _)
ApplyDiffs(ds, v) ==
    IF ds = <<>> THEN v ELSE ApplyDiffs(Tail(ds), ApplyDiff(Head(ds), v))

\* Successive batches applied in order.
RECURSIVE ApplyBatches(_, _)
ApplyBatches(bs, v) ==
    IF bs = <<>> THEN v ELSE ApplyBatches(Tail(bs), ApplyDiffs(Head(bs), v))

\* -------------------------------------------- what the services may emit
\* Diffs the room-list service can produce from its own list u.
ListDiffsFor(u) ==
    (IF Len(u) < MaxLen
        THEN {PushBack(Filled(r)) : r \in RoomIds} \cup {Insert(0, Empty)}
        ELSE {})
    \cup (IF Len(u) > 0 /\ u[1][1] = "Filled"
            THEN {Set(0, Invalidated(AsRoomId(u[1])))} ELSE {})
    \cup (IF Len(u) > 0 THEN {Remove(0), Clear} ELSE {})

\* The batches of at most k diffs the room-list service can produce from u.
RECURSIVE BatchesFrom(_, _)
BatchesFrom(u, k) ==
    IF k = 0 THEN {<<>>}
    ELSE {<<>>} \cup UNION {{<<d>> \o rest : rest \in BatchesFrom(ApplyDiff(d, u), k - 1)} :
                              d \in ListDiffsFor(u)}

\* Diffs the timeline of a room can produce from its own items u.
TlDiffsFor(u) ==
    {PushBack(x) : x \in TlValues} \cup (IF Len(u) > 0 THEN {Clear} ELSE {})

\* Late or malformed diffs: the index is beyond any list the consumer can hold.
BadDiffs == {Remove(MaxLen), Set(MaxLen, Empty), Insert(MaxLen + 1, Empty)}

\* Initial snapshots RoomList::entries() may hand out.
InitLists ==
    {<<>>, <<Filled("r1")>>, <<Filled("r1"), Empty, Filled("r2")>>}

\* ----------------------------------------------------------------- state
VARIABLES
    syncRunning,    \* the sync service is running (started by App::new)
    upstream,       \* the room list inside the room list service
    stream,         \* diff batches emitted and not yet received by listen_task
    nDiffs,         \* room-list diffs emitted so far
    rooms,          \* room_list_entries.items (shared vector behind a mutex)
    roomsLock,      \* the rooms mutex: "free", held by "listen", or "poisoned"
    lpc,            \* position of listen_task
    batch,          \* listen_task: diffs of the received batch still to apply
    allRooms,       \* listen_task: room ids still to initialize in this round
    curHandle,      \* listen_task: ui_room of the current iteration
    newUi,          \* listen_task: new_ui_rooms
    newTl,          \* listen_task: new_timelines
    roundOk,        \* listen_task: no call of the round in progress has failed
    uiRooms,        \* App::ui_rooms
    timelines,      \* App::timelines (room id -> index of its task in tasks)
    tasks,          \* every timeline task ever spawned, with its items and stream
    tlUp,           \* the timeline items inside the SDK, per room
    tlInit,         \* whether the SDK timeline of a room was initialized
    nTlDiffs,       \* timeline diffs emitted so far
    listenAbort,    \* listen_task.abort() was called
    rpc,            \* position of the render loop / run()
    arg,            \* argument of subscribe_to_selected_room
    selected,       \* room_list_entries.state.selected()
    curSub,         \* App::current_room_subscription
    subscribed,     \* rooms subscribed to in sliding sync
    subLog,         \* the last two subscribe/unsubscribe calls
    nKeys,          \* key presses handled so far
    startSel,       \* selection before the current run of next() calls
    calls,          \* length of the current run of next() calls
    waiter,         \* position of the wait_for_termination task of run()
    status,         \* App::last_status_message
    clearHandle,    \* App::clear_status_message (index of the task in timers)
    timers,         \* every task spawned by set_status_message
    detailsMode,    \* App::details_mode
    guards,         \* per path: the mutex guards it holds, in acquisition order
    site,           \* per path: the function it executes and the next lock site
    olmMachine,     \* whether Client::olm_machine() yields Some
    caller,         \* the caller of DehydratedDevices::rehydrate
    returned        \* the values rehydrate has returned to its caller

envVars == <<syncRunning, upstream, stream, nDiffs, tlUp, nTlDiffs>>
listenVars == <<lpc, batch, allRooms, curHandle, newUi, newTl, roundOk>>
mapVars == <<uiRooms, timelines>>
renderVars == <<rpc, arg, selected, curSub, subscribed, subLog, nKeys>>
focusVars == <<startSel, calls>>
statusVars == <<status, clearHandle, timers, detailsMode>>
guardVars == <<guards, site>>
deviceVars == <<olmMachine, caller, returned>>
vars == <<syncRunning, upstream, stream, nDiffs, rooms, roomsLock, lpc, batch, allRooms,
          curHandle, newUi, newTl, roundOk, uiRooms, timelines, tasks, tlUp,
          tlInit, nTlDiffs, listenAbort, rpc, arg, selected, curSub, subscribed,
          subLog, nKeys, startSel, calls, waiter, status, clearHandle, timers,
          detailsMode, guards, site, olmMachine, caller, returned>>


\* ------------------------------------------------------------------ Init
EmptyUi == [r \in RoomIds |-> NoHandle]

\* The paths that take the mutexes of the application: the render loop with
\* run(), listen_task, a timeline task and a task clearing the status message.
Paths == {"render", "listen", "timeline", "expiry"}

\* A path that executes none of the functions taking a mutex.
Idle == [fn |-> "idle", i |-> 0]

\* No mutex is locked when App::new spawns listen_task.
NoGuardHeld ==
    /\ guards = [p \in Paths |-> <<>>]
    /\ site = [p \in Paths |-> Idle]

\* The client of multiverse is logged in (it has an olm machine) and nothing
\* has called rehydrate.
NoDeviceCall ==
    /\ olmMachine = TRUE
    /\ caller = "running"
    /\ returned = <<>>

InitCommon ==
    /\ syncRunning = TRUE
    /\ stream = <<>>
    /\ nDiffs = 0
    /\ rooms = upstream
    /\ roomsLock = "free"
    /\ lpc = "next"
    /\ batch = <<>>
    /\ allRooms = <<>>
    /\ curHandle = NoHandle
    /\ newUi = EmptyUi
    /\ newTl = <<>>
    /\ roundOk = TRUE
    /\ uiRooms = EmptyUi
    /\ timelines = [r \in RoomIds |-> None]
    /\ tasks = <<>>
    /\ tlUp = [r \in RoomIds |-> <<>>]
    /\ tlInit = [r \in RoomIds |-> FALSE]
    /\ nTlDiffs = 0
    /\ listenAbort = FALSE
    /\ rpc = "poll"
    /\ arg = 0
    /\ curSub = NoHandle
    /\ subscribed = {}
    /\ subLog = <<>>
    /\ nKeys = 0
    /\ calls = 0
    /\ waiter = "none"
    /\ status = NoStatus
    /\ clearHandle = None
    /\ timers = <<>>
    /\ detailsMode = "ReadReceipts"
    /\ NoGuardHeld

\* App::new: the list starts as the snapshot of entries(), nothing is selected.
Init ==
    /\ upstream \in InitLists
    /\ selected = None
    /\ startSel = None
    /\ InitCommon
    /\ NoDeviceCall

\* --------------------------------------------------------- the services
\* While the sync service runs, the room list service changes its list and
\* publishes the diffs as one batch.
EmitBatch ==
    /\ syncRunning
    /\ \E b \in BatchesFrom(upstream, MaxDiffs - nDiffs) \ {<<>>} :
          /\ upstream' = ApplyDiffs(b, upstream)
          /\ stream' = Append(stream, b)
          /\ nDiffs' = nDiffs + Len(b)
    /\ UNCHANGED <<syncRunning, rooms, roomsLock, listenVars, mapVars, tasks, tlUp,
                   tlInit, nTlDiffs, listenAbort, renderVars, focusVars, waiter, statusVars,
                   guardVars, deviceVars>>

\* A batch of one late or malformed diff reaches the stream; the list of the
\* service is as before.
EmitBadBatch ==
    /\ syncRunning
    /\ nDiffs < MaxDiffs
    /\ \E d \in BadDiffs : stream' = Append(stream, <<d>>)
    /\ nDiffs' = nDiffs + 1
    /\ UNCHANGED <<syncRunning, upstream, rooms, roomsLock, listenVars, mapVars,
                   tasks, tlUp, tlInit, nTlDiffs, listenAbort, renderVars,
                   focusVars, waiter, statusVars,
                   guardVars, deviceVars>>

\* While the sync service runs, the timeline of room r changes and publishes
\* one diff to its subscribers.
TlEmit(r) ==
    /\ syncRunning
    /\ tlInit[r]
    /\ nTlDiffs < MaxTlDiffs
    /\ \E d \in TlDiffsFor(tlUp[r]) :
          /\ tlUp' = [tlUp EXCEPT ![r] = ApplyDiff(d, @)]
          /\ tasks' = [t \in DOMAIN tasks |->
                         IF tasks[t].room = r
                            THEN [tasks[t] EXCEPT !.queue = Append(@, d)]
                            ELSE tasks[t]]
    /\ nTlDiffs' = nTlDiffs + 1
    /\ UNCHANGED <<syncRunning, upstream, stream, nDiffs, rooms, roomsLock,
                   listenVars, mapVars, tlInit, listenAbort, renderVars, focusVars, waiter, statusVars,
                   guardVars, deviceVars>>

\* ----------------------------------------------------------- listen_task
\* Positions at which listen_task awaits, where an abort can take effect.
ListenAwaitPoints == {"next", "resolve", "builder", "init", "timeline"}

\* Position after one iteration of the new-room loop, given what is left.
AfterRoom(rest) == IF rest = <<>> THEN "extend_ui" ELSE "resolve"

\* while let Some(diffs) = stream.next().await { let mut rooms = rooms.lock().unwrap();
\* (the render loop holds the mutex only within one of its steps)
ListenNext ==
    /\ lpc = "next"
    /\ stream # <<>>
    /\ roomsLock = "free"
    /\ batch' = Head(stream)
    /\ stream' = Tail(stream)
    /\ roomsLock' = "listen"
    /\ lpc' = "apply"
    /\ UNCHANGED <<roundOk, syncRunning, upstream, nDiffs, rooms, allRooms, curHandle,
                   newUi, newTl, mapVars, tasks, tlUp, tlInit, nTlDiffs,
                   listenAbort, renderVars, focusVars, waiter, statusVars,
                   guardVars, deviceVars>>

\* Mutant: the guard is dropped after every diff instead of after the batch.
ListenApplyDiffUnlocked ==
    /\ lpc = "apply"
    /\ batch # <<>>
    /\ rooms' = ApplyDiff(Head(batch), rooms)
    /\ batch' = Tail(batch)
    /\ roomsLock' = "free"
    /\ UNCHANGED <<roundOk, envVars, lpc, allRooms, curHandle, newUi, newTl,
                   mapVars, tasks, tlInit, listenAbort, renderVars,
                   focusVars, waiter, statusVars,
                   guardVars, deviceVars>>

\* diff.apply(&mut rooms), one diff of the batch, the guard still held.
ListenApplyDiff ==
    /\ lpc = "apply"
    /\ batch # <<>>
    /\ InRange(Head(batch), rooms)
    /\ rooms' = ApplyDiff(Head(batch), rooms)
    /\ batch' = Tail(batch)
    /\ UNCHANGED <<roundOk, envVars, roomsLock, lpc, allRooms, curHandle, newUi, newTl,
                   mapVars, tasks, tlInit, listenAbort, renderVars,
                   focusVars, waiter, statusVars,
                   guardVars, deviceVars>>

\* diff.apply(&mut rooms) with an index out of range: the vector operation
\* panics, listen_task ends, and the guard dropped by the unwinding poisons the
\* rooms mutex.
ListenApplyPanic ==
    /\ lpc = "apply"
    /\ batch # <<>>
    /\ ~InRange(Head(batch), rooms)
    /\ lpc' = "panicked"
    /\ roomsLock' = "poisoned"
    /\ batch' = <<>>
    /\ roundOk' = TRUE
    /\ UNCHANGED <<envVars, rooms, allRooms, curHandle, newUi, newTl, mapVars,
                   tasks, tlInit, listenAbort, renderVars, focusVars, waiter,
                   statusVars,
                   guardVars, deviceVars>>

\* rooms.iter().filter_map(|entry| entry.as_room_id()).collect()
RECURSIVE CollectRoomIds(_)
CollectRoomIds(v) ==
    IF v = <<>> THEN <<>>
    ELSE (IF AsRoomId(Head(v)) = NoRoom THEN <<>> ELSE <<AsRoomId(Head(v))>>)
         \o CollectRoomIds(Tail(v))


\* Mutant: the rooms already in ui_rooms are not filtered out.
NewRoomsUnfiltered(ids, previous_ui_rooms) == ids

\* all_rooms.into_iter().filter(|room_id| !previous_ui_rooms.contains_key(room_id))
NewRooms(ids, previous_ui_rooms) ==
    SelectSeq(ids, LAMBDA r : previous_ui_rooms[r] = NoHandle)

\* The batch is applied: collect the room ids, drop the guard, clone ui_rooms
\* (which only listen_task writes) and start the round with fresh maps.
ListenCollect ==
    /\ lpc = "apply"
    /\ batch = <<>>
    /\ roomsLock' = "free"
    /\ allRooms' = NewRooms(CollectRoomIds(rooms), uiRooms)
    /\ newUi' = EmptyUi
    /\ newTl' = <<>>
    /\ roundOk' = TRUE
    /\ lpc' = AfterRoom(allRooms')
    /\ UNCHANGED <<envVars, rooms, batch, curHandle, mapVars, tasks,
                   tlInit, listenAbort, renderVars, focusVars, waiter, statusVars,
                   guardVars, deviceVars>>

\* sync_service.room_list_service().room(&room_id).await, else error!(..) and
\* continue.
\* A handle is told apart by the number of the timeline task spawned with it.
ListenResolve ==
    /\ lpc = "resolve"
    /\ \E ok \in BOOLEAN :
          IF ok
             THEN /\ Len(tasks) < MaxTasks
                  /\ curHandle' = [room |-> Head(allRooms), id |-> Len(tasks) + 1]
                  /\ lpc' = "builder"
                  /\ UNCHANGED <<allRooms, roundOk>>
             ELSE /\ lpc' = "resolve_err"
                  /\ roundOk' = FALSE
                  /\ UNCHANGED <<allRooms, curHandle>>
    /\ UNCHANGED <<envVars, rooms, roomsLock, batch, newUi, newTl, mapVars, tasks,
                   tlInit, listenAbort, renderVars, focusVars, waiter, statusVars,
                   guardVars, deviceVars>>

\* Mutant: break instead of continue, the rest of the round is given up.
ListenResolveErrBreak ==
    /\ lpc = "resolve_err"
    /\ allRooms' = <<>>
    /\ lpc' = "extend_ui"
    /\ UNCHANGED <<roundOk, envVars, rooms, roomsLock, batch, curHandle, newUi, newTl,
                   mapVars, tasks, tlInit, listenAbort, renderVars, focusVars,
                   waiter, statusVars,
                   guardVars, deviceVars>>

\* error!("error when retrieving room after an update"); continue
ListenResolveErr ==
    /\ lpc = "resolve_err"
    /\ allRooms' = Tail(allRooms)
    /\ lpc' = AfterRoom(Tail(allRooms))
    /\ UNCHANGED <<roundOk, envVars, rooms, roomsLock, batch, curHandle, newUi, newTl,
                   mapVars, tasks, tlInit, listenAbort, renderVars, focusVars,
                   waiter, statusVars,
                   guardVars, deviceVars>>

\* ui_room.default_room_timeline_builder().await, on Err continue
ListenBuilder ==
    /\ lpc = "builder"
    /\ \E ok \in BOOLEAN :
          IF ok
             THEN /\ lpc' = "init"
                  /\ UNCHANGED <<allRooms, curHandle, roundOk>>
             ELSE /\ roundOk' = FALSE
                  /\ allRooms' = Tail(allRooms)
                  /\ curHandle' = NoHandle
                  /\ lpc' = AfterRoom(Tail(allRooms))
    /\ UNCHANGED <<envVars, rooms, roomsLock, batch, newUi, newTl,
                   mapVars, tasks, tlInit, listenAbort, renderVars, focusVars, waiter, statusVars,
                   guardVars, deviceVars>>

\* ui_room.init_timeline_with_builder(builder).await: an Err is only logged.
ListenInit ==
    /\ lpc = "init"
    /\ \E ok \in BOOLEAN :
          /\ tlInit' = [tlInit EXCEPT ![curHandle.room] = @ \/ ok]
          /\ roundOk' = (roundOk /\ ok)
    /\ lpc' = "timeline"
    /\ UNCHANGED <<envVars, rooms, roomsLock, batch, allRooms, curHandle, newUi,
                   newTl, mapVars, tasks, listenAbort, renderVars,
                   focusVars, waiter, statusVars,
                   guardVars, deviceVars>>

\* ui_room.timeline().unwrap().subscribe().await, spawn(timeline_task),
\* new_timelines.push(..), new_ui_rooms.insert(..)
ListenSubscribe ==
    /\ lpc = "timeline"
    /\ IF tlInit[curHandle.room]
          THEN /\ tasks' = Append(tasks, [room |-> curHandle.room,
                                          items |-> tlUp[curHandle.room],
                                          queue |-> <<>>, st |-> "run"])
               /\ newTl' = Append(newTl, <<curHandle.room, Len(tasks) + 1>>)
               /\ newUi' = [newUi EXCEPT ![curHandle.room] = curHandle]
               /\ allRooms' = Tail(allRooms)
               /\ lpc' = AfterRoom(Tail(allRooms))
               /\ UNCHANGED roundOk
          ELSE /\ lpc' = "panicked"
               /\ allRooms' = <<>>
               /\ newUi' = EmptyUi
               /\ newTl' = <<>>
               /\ roundOk' = TRUE
               /\ UNCHANGED tasks
    /\ curHandle' = NoHandle
    /\ UNCHANGED <<envVars, rooms, roomsLock, batch, mapVars, tlInit,
                   listenAbort, renderVars, focusVars, waiter, statusVars,
                   guardVars, deviceVars>>

\* Mutant: new_ui_rooms is dropped without being merged into ui_rooms.
ListenExtendUiDropped ==
    /\ lpc = "extend_ui"
    /\ uiRooms' = uiRooms
    /\ newUi' = EmptyUi
    /\ lpc' = "extend_tl"
    /\ UNCHANGED <<roundOk, envVars, rooms, roomsLock, batch, allRooms, curHandle, newTl,
                   timelines, tasks, tlInit, listenAbort, renderVars,
                   focusVars, waiter, statusVars,
                   guardVars, deviceVars>>

\* ui_rooms.lock().unwrap().extend(new_ui_rooms)
ListenExtendUi ==
    /\ lpc = "extend_ui"
    /\ uiRooms' = [r \in RoomIds |-> IF newUi[r] # NoHandle THEN newUi[r] ELSE uiRooms[r]]
    /\ newUi' = EmptyUi
    /\ lpc' = "extend_tl"
    /\ UNCHANGED <<roundOk, envVars, rooms, roomsLock, batch, allRooms, curHandle, newTl,
                   timelines, tasks, tlInit, listenAbort, renderVars,
                   focusVars, waiter, statusVars,
                   guardVars, deviceVars>>

\* HashMap::extend with a vector of pairs: a later pair replaces an earlier one.
RECURSIVE ExtendMap(_, _)
ExtendMap(m, pairs) ==
    IF pairs = <<>> THEN m
    ELSE ExtendMap([m EXCEPT ![Head(pairs)[1]] = Head(pairs)[2]], Tail(pairs))

\* timelines.lock().unwrap().extend(new_timelines)
ListenExtendTl ==
    /\ lpc = "extend_tl"
    /\ timelines' = ExtendMap(timelines, newTl)
    /\ newTl' = <<>>
    /\ lpc' = "next"
    /\ roundOk' = TRUE
    /\ UNCHANGED <<envVars, rooms, roomsLock, batch, allRooms, curHandle, newUi,
                   uiRooms, tasks, tlInit, listenAbort, renderVars,
                   focusVars, waiter, statusVars,
                   guardVars, deviceVars>>

\* An aborted listen_task is dropped at an await point; its locals go with it.
ListenCancel ==
    /\ listenAbort
    /\ lpc \in ListenAwaitPoints
    /\ lpc' = "cancelled"
    /\ roomsLock' = IF roomsLock = "listen" THEN "free" ELSE roomsLock
    /\ batch' = <<>>
    /\ allRooms' = <<>>
    /\ curHandle' = NoHandle
    /\ newUi' = EmptyUi
    /\ newTl' = <<>>
    /\ roundOk' = TRUE
    /\ UNCHANGED <<envVars, rooms, mapVars, tasks, tlInit, listenAbort,
                   renderVars, focusVars, waiter, statusVars,
                   guardVars, deviceVars>>

\* -------------------------------------------------------- timeline tasks
\* while let Some(diff) = stream.next().await { items.lock(); diff.apply(..) }
TlStep(t) ==
    /\ tasks[t].st # "cancelled"
    /\ tasks[t].queue # <<>>
    /\ tasks' = [tasks EXCEPT ![t].items = ApplyDiff(Head(tasks[t].queue), @),
                              ![t].queue = Tail(@)]
    /\ UNCHANGED <<envVars, rooms, roomsLock, listenVars, mapVars, tlInit,
                   listenAbort, renderVars, focusVars, waiter, statusVars,
                   guardVars, deviceVars>>

\* An aborted timeline task is dropped at its await point; queue then holds the
\* diffs it never received.
TlCancel(t) ==
    /\ tasks[t].st = "aborted"
    /\ tasks' = [tasks EXCEPT ![t].st = "cancelled"]
    /\ UNCHANGED <<envVars, rooms, roomsLock, listenVars, mapVars, tlInit,
                   listenAbort, renderVars, focusVars, waiter, statusVars,
                   guardVars, deviceVars>>


\* ---------------------------------------------------------- StatefulList
\* Mutant: the empty list returns early without select(None).
StatefulListNextNoClear(prev, num_items) ==
    IF num_items = 0 THEN [sel |-> prev, ret |-> None]
    ELSE LET new == IF prev = None THEN 0
                    ELSE IF prev >= num_items - 1 THEN 0 ELSE prev + 1
         IN  IF prev # new THEN [sel |-> new, ret |-> new]
                           ELSE [sel |-> prev, ret |-> None]

\* Mutant: the wrap-around compares with num_items instead of num_items - 1.
StatefulListNextLateWrap(prev, num_items) ==
    IF num_items = 0 THEN [sel |-> None, ret |-> None]
    ELSE LET new == IF prev = None THEN 0
                    ELSE IF prev >= num_items THEN 0 ELSE prev + 1
         IN  IF prev # new THEN [sel |-> new, ret |-> new]
                           ELSE [sel |-> prev, ret |-> None]

\* StatefulList::next: the selection after the call and the value returned.
StatefulListNext(prev, num_items) ==
    IF num_items = 0 THEN [sel |-> None, ret |-> None]
    ELSE LET new == IF prev = None THEN 0
                    ELSE IF prev >= num_items - 1 THEN 0 ELSE prev + 1
         IN  IF prev # new THEN [sel |-> new, ret |-> new]
                           ELSE [sel |-> prev, ret |-> None]

\* Mutant: index 0 wraps to num_items instead of num_items - 1.
StatefulListPreviousWrapPast(prev, num_items) ==
    IF num_items = 0 THEN [sel |-> None, ret |-> None]
    ELSE LET new == IF prev = None THEN 0
                    ELSE IF prev = 0 THEN num_items ELSE prev - 1
         IN  IF prev # new THEN [sel |-> new, ret |-> new]
                           ELSE [sel |-> prev, ret |-> None]

\* Mutant: the new index is returned whether or not it differs from the old one.
StatefulListPreviousAlwaysSome(prev, num_items) ==
    IF num_items = 0 THEN [sel |-> None, ret |-> None]
    ELSE LET new == IF prev = None THEN 0
                    ELSE IF prev = 0 THEN num_items - 1 ELSE prev - 1
         IN  [sel |-> new, ret |-> new]

\* StatefulList::previous: the selection after the call and the value returned.
StatefulListPrevious(prev, num_items) ==
    IF num_items = 0 THEN [sel |-> None, ret |-> None]
    ELSE LET new == IF prev = None THEN 0
                    ELSE IF prev = 0 THEN num_items - 1 ELSE prev - 1
         IN  IF prev # new THEN [sel |-> new, ret |-> new]
                           ELSE [sel |-> prev, ret |-> None]

\* ----------------------------------------------------------- render loop
\* The last two calls made on the sliding-sync room subscriptions.
Logged(log, call) == IF Len(log) < 2 THEN Append(log, call) ELSE <<log[2], call>>

\* What the key handler does with the result of next() / previous().
Dispatch(res) ==
    /\ selected' = res.sel
    /\ IF res.ret # None
          THEN rpc' = "unsub" /\ arg' = res.ret
          ELSE rpc' = "poll" /\ arg' = arg
    /\ nKeys' = nKeys + 1
    /\ UNCHANGED <<envVars, rooms, roomsLock, listenVars, mapVars, tasks, tlInit,
                   listenAbort, curSub, subscribed, subLog, focusVars, waiter, statusVars,
                   guardVars, deviceVars>>

\* Char('j') | Down: next(), then subscribe_to_selected_room(i) on Some(i).
KeyJ ==
    /\ rpc = "poll"
    /\ nKeys < MaxKeys
    /\ roomsLock = "free"
    /\ Dispatch(StatefulListNext(selected, Len(rooms)))

\* Char('k') | Up: previous(), then subscribe_to_selected_room(i) on Some(i).
KeyK ==
    /\ rpc = "poll"
    /\ nKeys < MaxKeys
    /\ roomsLock = "free"
    /\ Dispatch(StatefulListPrevious(selected, Len(rooms)))

\* Mutant: the previous subscription is kept, no unsubscribe() is called.
SubUnsubSkipped ==
    /\ rpc = "unsub"
    /\ rpc' = "lookup"
    /\ UNCHANGED <<envVars, rooms, roomsLock, listenVars, mapVars, tasks, tlInit,
                   listenAbort, arg, selected, nKeys, focusVars, subscribed, subLog,
                   curSub, waiter, statusVars,
                   guardVars, deviceVars>>

\* subscribe_to_selected_room: current_room_subscription.take(), unsubscribe().
SubUnsub ==
    /\ rpc = "unsub"
    /\ IF curSub # NoHandle
          THEN /\ subscribed' = subscribed \ {curSub.room}
               /\ subLog' = Logged(subLog, <<"unsubscribe", curSub.room>>)
               /\ curSub' = NoHandle
          ELSE UNCHANGED <<subscribed, subLog, curSub>>
    /\ rpc' = "lookup"
    /\ UNCHANGED <<envVars, rooms, roomsLock, listenVars, mapVars, tasks, tlInit,
                   listenAbort, arg, selected, nKeys, focusVars, waiter, statusVars,
                   guardVars, deviceVars>>

\* items.get(selected), as_room_id(), ui_rooms.get(&room_id)
LookupRoom(items, ui_rooms, index) ==
    IF index >= Len(items) THEN NoHandle
    ELSE IF AsRoomId(items[index + 1]) = NoRoom THEN NoHandle
    ELSE ui_rooms[AsRoomId(items[index + 1])]

\* mark_as_read: state.selected().and_then(items.get).and_then(as_room_id)
\* .and_then(ui_rooms.get)
SelectedHandle ==
    IF selected = None THEN NoHandle ELSE LookupRoom(rooms, uiRooms, selected)

\* Mutant: the room is subscribed to but not stored in current_room_subscription.
SubLookupNotStored ==
    /\ rpc = "lookup"
    /\ roomsLock = "free"
    /\ LET room == LookupRoom(rooms, uiRooms, arg)
       IN  IF room # NoHandle
              THEN /\ subscribed' = subscribed \cup {room.room}
                   /\ subLog' = Logged(subLog, <<"subscribe", room.room>>)
              ELSE UNCHANGED <<subscribed, subLog>>
    /\ curSub' = curSub
    /\ rpc' = "poll"
    /\ UNCHANGED <<envVars, rooms, roomsLock, listenVars, mapVars, tasks, tlInit,
                   listenAbort, arg, selected, nKeys, focusVars, waiter, statusVars,
                   guardVars, deviceVars>>

\* subscribe_to_selected_room: look the room up, subscribe(None), remember it.
SubLookup ==
    /\ rpc = "lookup"
    /\ roomsLock = "free"
    /\ LET room == LookupRoom(rooms, uiRooms, arg)
       IN  IF room # NoHandle
              THEN /\ subscribed' = subscribed \cup {room.room}
                   /\ subLog' = Logged(subLog, <<"subscribe", room.room>>)
                   /\ curSub' = room
              ELSE UNCHANGED <<subscribed, subLog, curSub>>
    /\ rpc' = "poll"
    /\ UNCHANGED <<envVars, rooms, roomsLock, listenVars, mapVars, tasks, tlInit,
                   listenAbort, arg, selected, nKeys, focusVars, waiter, statusVars,
                   guardVars, deviceVars>>

\* terminal.draw(..) renders the room list: items.lock().unwrap() on a
\* poisoned mutex panics in the render loop.
RenderPanic ==
    /\ rpc = "poll"
    /\ roomsLock = "poisoned"
    /\ rpc' = "panicked"
    /\ UNCHANGED <<envVars, rooms, roomsLock, listenVars, mapVars, tasks, tlInit,
                   listenAbort, arg, selected, curSub, subscribed, subLog, nKeys,
                   focusVars, waiter, statusVars,
                   guardVars, deviceVars>>

\* Char('q') | Esc => return Ok(()): render_loop ends and run() goes on:
\* spawn(wait_for_termination), then the call of self.sync_service.stop()
KeyQ ==
    /\ rpc = "poll"
    /\ rpc' = "stopping"
    /\ waiter' = "spawned"
    /\ UNCHANGED <<envVars, rooms, roomsLock, listenVars, mapVars, tasks, tlInit,
                   listenAbort, arg, selected, curSub, subscribed, subLog, nKeys,
                   focusVars, statusVars,
                   guardVars, deviceVars>>

\* self.sync_service.stop().await? returns: on Ok the service has stopped and
\* run() goes on with self.listen_task.abort(); an Err leaves run(), and with
\* it main() and the process.
RunStop ==
    /\ rpc = "stopping"
    /\ syncRunning' = FALSE
    /\ \E ok \in BOOLEAN :
          IF ok THEN rpc' = "abort_tl" /\ listenAbort' = TRUE
                ELSE rpc' = "failed" /\ UNCHANGED listenAbort
    /\ UNCHANGED <<upstream, stream, nDiffs, tlUp, nTlDiffs, rooms, roomsLock,
                   listenVars, mapVars, tasks, tlInit, arg, selected, curSub,
                   subscribed, subLog, nKeys, focusVars, waiter, statusVars,
                   guardVars, deviceVars>>

\* for timeline in self.timelines.lock().unwrap().values() { timeline.task.abort() }
\* and run() goes on to wait_for_termination.await
RunAbortTimelines ==
    /\ rpc = "abort_tl"
    /\ tasks' = [t \in DOMAIN tasks |->
                   IF tasks[t].st = "run" /\ \E r \in RoomIds : timelines[r] = t
                      THEN [tasks[t] EXCEPT !.st = "aborted"]
                      ELSE tasks[t]]
    /\ rpc' = "wait"
    /\ UNCHANGED <<envVars, rooms, roomsLock, listenVars, mapVars, tlInit,
                   listenAbort, arg, selected, curSub, subscribed, subLog, nKeys,
                   focusVars, waiter, statusVars,
                   guardVars, deviceVars>>

\* wait_for_termination.await.unwrap(); println!("okthxbye!"); Ok(())
RunJoin ==
    /\ rpc = "wait"
    /\ waiter = "done"
    /\ rpc' = "done"
    /\ UNCHANGED <<envVars, rooms, roomsLock, listenVars, mapVars, tasks, tlInit,
                   listenAbort, arg, selected, curSub, subscribed, subLog, nKeys,
                   focusVars, waiter, statusVars,
                   guardVars, deviceVars>>

\* wait_for_termination: s.state() makes a subscriber of the service state,
\* which yields the changes made after it was made.
WaiterSubscribe ==
    /\ waiter = "spawned"
    /\ waiter' = IF syncRunning THEN "sub_running" ELSE "sub_stopped"
    /\ UNCHANGED <<envVars, rooms, roomsLock, listenVars, mapVars, tasks, tlInit,
                   listenAbort, renderVars, focusVars, statusVars,
                   guardVars, deviceVars>>

\* wait_for_termination: next().await yields a state that is not Running, break
WaiterObserve ==
    /\ waiter = "sub_running"
    /\ ~syncRunning
    /\ waiter' = "done"
    /\ UNCHANGED <<envVars, rooms, roomsLock, listenVars, mapVars, tasks, tlInit,
                   listenAbort, renderVars, focusVars, statusVars,
                   guardVars, deviceVars>>

\* -------------------------------------------------------- status message
\* Mutant: the previous task is taken out of clear_status_message but not aborted.
AbortPreviousNever(handle, ts) ==
    IF handle = None THEN ts
    ELSE [ts EXCEPT ![handle].supAt = ts[handle].st]

\* if let Some(handle) = self.clear_status_message.take() { handle.abort() }
\* The task keeps the position it was superseded at (supAt) for the record.
AbortPrevious(handle, ts) ==
    IF handle = None THEN ts
    ELSE [ts EXCEPT ![handle].aborted = TRUE, ![handle].supAt = ts[handle].st]

\* set_status_message: abort the previous clearing task, store the message,
\* spawn the task that clears it after 4 seconds.
SetStatusMessage(message) ==
    /\ status' = message
    /\ timers' = Append(AbortPrevious(clearHandle, timers),
                        [msg |-> message, st |-> "sleep", aborted |-> FALSE,
                         supAt |-> "no"])
    /\ clearHandle' = Len(timers) + 1

\* tokio::time::sleep(Duration::from_secs(4)): the 4 seconds are over and the
\* task is woken, not yet polled.
TimerExpire(t) ==
    /\ timers[t].st = "sleep"
    /\ ~timers[t].aborted
    /\ timers' = [timers EXCEPT ![t].st = "woken"]
    /\ UNCHANGED <<envVars, rooms, roomsLock, listenVars, mapVars, tasks, tlInit,
                   listenAbort, renderVars, focusVars, waiter, status,
                   clearHandle, detailsMode,
                   guardVars, deviceVars>>

\* A worker thread polls the woken task: sleep(..).await returns and the task
\* runs on to the lock; abort() no longer stops it.
TimerResume(t) ==
    /\ timers[t].st = "woken"
    /\ ~timers[t].aborted
    /\ timers' = [timers EXCEPT ![t].st = "running"]
    /\ UNCHANGED <<envVars, rooms, roomsLock, listenVars, mapVars, tasks, tlInit,
                   listenAbort, renderVars, focusVars, waiter, status,
                   clearHandle, detailsMode,
                   guardVars, deviceVars>>

\* An aborted task that is suspended in sleep(..).await, or woken and not yet
\* polled, is dropped.
TimerCancel(t) ==
    /\ timers[t].aborted
    /\ timers[t].st \in {"sleep", "woken"}
    /\ timers' = [timers EXCEPT ![t].st = "cancelled"]
    /\ UNCHANGED <<envVars, rooms, roomsLock, listenVars, mapVars, tasks, tlInit,
                   listenAbort, renderVars, focusVars, waiter, status,
                   clearHandle, detailsMode,
                   guardVars, deviceVars>>

\* Mutant: the task ends after its sleep and leaves the message in place.
TimerWriteNothing(t) ==
    /\ timers[t].st = "running"
    /\ status' = status
    /\ timers' = [timers EXCEPT ![t].st = "done"]
    /\ UNCHANGED <<envVars, rooms, roomsLock, listenVars, mapVars, tasks, tlInit,
                   listenAbort, renderVars, focusVars, waiter, clearHandle,
                   detailsMode,
                   guardVars, deviceVars>>

\* *message.lock().unwrap() = None
TimerWrite(t) ==
    /\ timers[t].st = "running"
    /\ status' = NoStatus
    /\ timers' = [timers EXCEPT ![t].st = "done"]
    /\ UNCHANGED <<envVars, rooms, roomsLock, listenVars, mapVars, tasks, tlInit,
                   listenAbort, renderVars, focusVars, waiter, clearHandle,
                   detailsMode,
                   guardVars, deviceVars>>

\* ------------------------------------------------- commands of the render loop
\* Char('r') => self.details_mode = DetailsMode::ReadReceipts
KeyR ==
    /\ rpc = "poll"
    /\ detailsMode' = "ReadReceipts"
    /\ UNCHANGED <<envVars, rooms, roomsLock, listenVars, mapVars, tasks, tlInit,
                   listenAbort, renderVars, focusVars, waiter, status,
                   clearHandle, timers, guardVars, deviceVars>>

\* Char('t') => self.details_mode = DetailsMode::TimelineItems
KeyT ==
    /\ rpc = "poll"
    /\ detailsMode' = "TimelineItems"
    /\ UNCHANGED <<envVars, rooms, roomsLock, listenVars, mapVars, tasks, tlInit,
                   listenAbort, renderVars, focusVars, waiter, status,
                   clearHandle, timers, guardVars, deviceVars>>

\* Char('m') if details_mode == ReadReceipts => self.mark_as_read().await?
\* mark_as_read up to its await: with a room under the selection it calls
\* room.timeline().unwrap().mark_as_read(..), without one it sets the status.
KeyM ==
    /\ rpc = "poll"
    /\ detailsMode = "ReadReceipts"
    /\ roomsLock = "free"
    /\ Len(timers) < MaxTimers
    /\ IF SelectedHandle # NoHandle
          THEN /\ rpc' = "mark"
               /\ UNCHANGED <<status, clearHandle, timers>>
          ELSE /\ SetStatusMessage("missing room or nothing to show")
               /\ rpc' = "poll"
    /\ UNCHANGED <<envVars, rooms, roomsLock, listenVars, mapVars, tasks, tlInit,
                   listenAbort, arg, selected, curSub, subscribed, subLog, nKeys,
                   focusVars, waiter, detailsMode,
                   guardVars, deviceVars>>

\* mark_as_read(ReceiptType::Read).await? returns: Ok(did) sets the status and
\* the loop goes on; an Err leaves mark_as_read and, through the ? of the 'm'
\* arm, render_loop.
MarkReturn ==
    /\ rpc = "mark"
    /\ \E res \in {"sent", "not sent", "err"} :
          IF res = "err"
             THEN /\ rpc' = "error"
                  /\ UNCHANGED <<status, clearHandle, timers>>
             ELSE /\ SetStatusMessage(IF res = "sent"
                                         THEN "did send a read receipt!"
                                         ELSE "did not send a read receipt!")
                  /\ rpc' = "poll"
    /\ UNCHANGED <<envVars, rooms, roomsLock, listenVars, mapVars, tasks, tlInit,
                   listenAbort, arg, selected, curSub, subscribed, subLog, nKeys,
                   focusVars, waiter, detailsMode,
                   guardVars, deviceVars>>

\* Char('s') => self.sync_service.start().await: start() returns nothing, so
\* a service that fails to start is not reported to the loop.
KeyS ==
    /\ rpc = "poll"
    /\ \E ok \in BOOLEAN : syncRunning' = (syncRunning \/ ok)
    /\ UNCHANGED <<upstream, stream, nDiffs, tlUp, nTlDiffs, rooms, roomsLock,
                   listenVars, mapVars, tasks, tlInit, listenAbort, renderVars,
                   focusVars, waiter, statusVars,
                   guardVars, deviceVars>>

\* Char('S') => self.sync_service.stop().await?, up to the await
KeyStop ==
    /\ rpc = "poll"
    /\ rpc' = "stop"
    /\ UNCHANGED <<envVars, rooms, roomsLock, listenVars, mapVars, tasks, tlInit,
                   listenAbort, arg, selected, curSub, subscribed, subLog, nKeys,
                   focusVars, waiter, statusVars,
                   guardVars, deviceVars>>

\* stop() returns: on Ok the service has stopped and the loop goes on; an Err
\* leaves render_loop through the ? of the 'S' arm.
StopReturn ==
    /\ rpc = "stop"
    /\ \E ok \in BOOLEAN :
          IF ok THEN syncRunning' = FALSE /\ rpc' = "poll"
                ELSE UNCHANGED syncRunning /\ rpc' = "error"
    /\ UNCHANGED <<upstream, stream, nDiffs, tlUp, nTlDiffs, rooms, roomsLock,
                   listenVars, mapVars, tasks, tlInit, listenAbort, arg, selected,
                   curSub, subscribed, subLog, nKeys, focusVars, waiter,
                   statusVars,
                   guardVars, deviceVars>>

\* -------------------------------------------------------- specifications
\* listen_task with the room list service.
ListenTask ==
    \/ EmitBatch
    \/ ListenNext
    \/ ListenApplyDiff
    \/ ListenCollect
    \/ ListenResolve
    \/ ListenResolveErr
    \/ ListenBuilder
    \/ ListenInit
    \/ ListenSubscribe
    \/ ListenExtendUi
    \/ ListenExtendTl

\* The timeline tasks with the timelines of the SDK.
TimelineTasks ==
    \/ \E r \in RoomIds : TlEmit(r)
    \/ \E t \in DOMAIN tasks : TlStep(t)

\* The quit path of run() and the cancellations it requests.
QuitPath ==
    \/ KeyQ
    \/ RunStop
    \/ RunAbortTimelines
    \/ ListenCancel
    \/ \E t \in DOMAIN tasks : TlCancel(t)

\* The j/k keys of the render loop.
Selection ==
    \/ KeyJ
    \/ KeyK
    \/ SubUnsub
    \/ SubLookup

\* The background tasks and the shutdown; the user only quits.
NextSync == ListenTask \/ TimelineTasks \/ QuitPath
SpecSync == Init /\ [][NextSync]_vars

\* The wait_for_termination task of run() and the end of run().
Termination ==
    \/ WaiterSubscribe
    \/ WaiterObserve
    \/ RunJoin

\* listen_task and the whole of run() after the quit key; the timelines of the
\* SDK do not change.
NextQuit == ListenTask \/ QuitPath \/ Termination
SpecQuit == Init /\ [][NextQuit]_vars

\* listen_task and the drawing render loop when the stream may also carry
\* diffs with an index out of range.
NextFault == ListenTask \/ EmitBadBatch \/ ListenApplyPanic \/ RenderPanic
SpecFault == Init /\ [][NextFault]_vars

\* The room list and the selection; timelines stay as subscribed.
NextSelect == ListenTask \/ Selection
SpecSelect == Init /\ [][NextSelect]_vars


\* ------------------------------------------- the commands and the status
\* The app some time after App::new: the batch [PushBack(Filled(r1)),
\* Insert(0, Empty)] went through listen_task with every call succeeding, and
\* the user pressed no key yet or pressed j twice.
InitCommands ==
    /\ upstream = <<Empty, Filled("r1")>>
    /\ rooms = upstream
    /\ syncRunning = TRUE
    /\ stream = <<>>
    /\ nDiffs = 2
    /\ roomsLock = "free"
    /\ lpc = "next"
    /\ batch = <<>>
    /\ allRooms = <<>>
    /\ curHandle = NoHandle
    /\ newUi = EmptyUi
    /\ newTl = <<>>
    /\ roundOk = TRUE
    /\ uiRooms = [EmptyUi EXCEPT !["r1"] = [room |-> "r1", id |-> 1]]
    /\ timelines = [r \in RoomIds |-> IF r = "r1" THEN 1 ELSE None]
    /\ tasks = <<[room |-> "r1", items |-> <<>>, queue |-> <<>>, st |-> "run"]>>
    /\ tlUp = [r \in RoomIds |-> <<>>]
    /\ tlInit = [r \in RoomIds |-> r = "r1"]
    /\ nTlDiffs = 0
    /\ listenAbort = FALSE
    /\ rpc = "poll"
    /\ \/ /\ selected = None
          /\ nKeys = 0
          /\ arg = 0
          /\ curSub = NoHandle
          /\ subscribed = {}
          /\ subLog = <<>>
       \/ /\ selected = 1
          /\ nKeys = 2
          /\ arg = 1
          /\ curSub = [room |-> "r1", id |-> 1]
          /\ subscribed = {"r1"}
          /\ subLog = << <<"subscribe", "r1">> >>
    /\ startSel = None
    /\ calls = 0
    /\ waiter = "none"
    /\ status = NoStatus
    /\ clearHandle = None
    /\ timers = <<>>
    /\ detailsMode = "ReadReceipts"
    /\ NoGuardHeld
    /\ NoDeviceCall

\* The r/t/m/s/S keys and the tasks that clear the status.
Commands ==
    \/ KeyR
    \/ KeyT
    \/ KeyM
    \/ MarkReturn
    \/ KeyS
    \/ KeyStop
    \/ StopReturn

StatusTimers ==
    \/ \E t \in DOMAIN timers : TimerExpire(t)
    \/ \E t \in DOMAIN timers : TimerResume(t)
    \/ \E t \in DOMAIN timers : TimerCancel(t)
    \/ \E t \in DOMAIN timers : TimerWrite(t)

NextCommands == Commands \/ StatusTimers
SpecCommands == InitCommands /\ [][NextCommands]_vars


\* ------------------------------------------------- StatefulList by itself
\* Lists of every length up to MaxLen; next() and previous() read only the length.
FocusLists == UNION {[1..n -> {Empty, Filled("r1")}] : n \in 0..MaxLen}

\* Any list with any selection the render loop can hold: none, an index of the
\* list, or an index left over from a longer list.
InitFocus ==
    /\ upstream \in FocusLists
    /\ selected \in {None} \cup 0..(MaxLen - 1)
    /\ startSel = selected
    /\ InitCommon
    /\ NoDeviceCall

\* self.room_list_entries.next(), counted in the current run of next() calls.
FocusNext ==
    /\ calls < MaxLen
    /\ selected' = StatefulListNext(selected, Len(rooms)).sel
    /\ calls' = calls + 1
    /\ UNCHANGED <<envVars, rooms, roomsLock, listenVars, mapVars, tasks, tlInit,
                   listenAbort, rpc, arg, curSub, subscribed, subLog, nKeys,
                   startSel, waiter, statusVars,
                   guardVars, deviceVars>>

\* self.room_list_entries.previous(); a new run of next() calls starts after it.
FocusPrevious ==
    /\ selected' = StatefulListPrevious(selected, Len(rooms)).sel
    /\ startSel' = selected'
    /\ calls' = 0
    /\ UNCHANGED <<envVars, rooms, roomsLock, listenVars, mapVars, tasks, tlInit,
                   listenAbort, rpc, arg, curSub, subscribed, subLog, nKeys,
                   waiter, statusVars,
                   guardVars, deviceVars>>

NextFocus == FocusNext \/ FocusPrevious
SpecFocus == InitFocus /\ [][NextFocus]_vars


\* ================================================================= claims

\* The room the selection points at, if it is resolved in ui_rooms.
SelectedRoom ==
    IF selected = None THEN NoHandle ELSE LookupRoom(rooms, uiRooms, selected)

\* Timeline tasks ever spawned for room r.
ConsumersOf(r) == {t \in DOMAIN tasks : tasks[t].room = r}

\* C1: whenever a reader can take the rooms mutex (and after listen_task is
\* cancelled), the room list is the service's list without exactly the batches
\* still in the stream, i.e. the snapshot with a prefix of the batches applied
\* whole and in order; each timeline's items are likewise the SDK timeline
\* without exactly the diffs still queued for its task.
DiffsAppliedInOrder ==
    /\ roomsLock = "free" => ApplyBatches(stream, rooms) = upstream
    /\ \A t \in DOMAIN tasks :
          ApplyDiffs(tasks[t].queue, tasks[t].items) = tlUp[tasks[t].room]

\* C1 witness: two room-list diffs whose order matters have been applied and
\* the guard is dropped, while a timeline task has applied one diff and has
\* another queued.
DiffsAppliedInOrderWitness ==
    /\ roomsLock = "free"
    /\ nDiffs = 2
    /\ stream = <<>>
    /\ rooms = <<Filled("r1"), Filled("r2")>>
    /\ \E t \in DOMAIN tasks :
          /\ Len(tasks[t].queue) = 1
          /\ nTlDiffs = 2
          /\ tasks[t].items = <<"a">>
          /\ tlUp[tasks[t].room] = <<>>

\* C2: no room id ever has more than one timeline task spawned for it.
AtMostOneConsumerPerRoom ==
    \A r \in RoomIds : Cardinality(ConsumersOf(r)) <= 1

\* C3: once a room id is a key of ui_rooms, its handle is never replaced, and
\* once it is a key of timelines, its timeline is never replaced.
HandleInsertedOnce ==
    [][\A r \in RoomIds :
          /\ uiRooms[r] # NoHandle => uiRooms'[r] = uiRooms[r]
          /\ timelines[r] # None => timelines'[r] = timelines[r]]_vars

\* C3 witness: a round is about to merge a new room into ui_rooms while a room
\* of the list is already a key of both maps.
HandleInsertedOnceWitness ==
    /\ lpc = "extend_ui"
    /\ newUi["r2"] # NoHandle
    /\ uiRooms["r1"] # NoHandle
    /\ timelines["r1"] # None
    /\ \E i \in DOMAIN rooms : AsRoomId(rooms[i]) = "r1"

\* C4: with the key handler and the listen task at rest, a held subscription
\* is the one of the room at the selected index, resolved in ui_rooms; with no
\* selection or an unresolved slot nothing is held.
SubscriptionFollowsSelection ==
    (rpc = "poll" /\ lpc = "next" /\ stream = <<>>) =>
        /\ curSub # NoHandle => curSub = SelectedRoom
        /\ subscribed = IF curSub = NoHandle THEN {} ELSE {curSub.room}

\* C5: at most one room is subscribed to at any time.
AtMostOneSubscription == Cardinality(subscribed) <= 1

\* C5 witness: the subscription moved from r1 to r2.
AtMostOneSubscriptionWitness ==
    /\ subLog = <<<<"unsubscribe", "r1">>, <<"subscribe", "r2">>>>
    /\ subscribed = {"r2"}
    /\ rpc = "poll"

\* C6: every step that changes the subscribed rooms either subscribes while
\* nothing is subscribed or unsubscribes the only subscribed room: the old room
\* is unsubscribed before the new one is subscribed, never both at once.
UnsubscribeBeforeSubscribe ==
    [][subscribed' # subscribed =>
          \/ subscribed = {} /\ Cardinality(subscribed') = 1
          \/ subscribed' = {} /\ Cardinality(subscribed) = 1]_vars

\* C6 witness: after j (none -> 0) and k (0 wraps to 2) on a 3-element list the
\* room at index 0 was unsubscribed and then the room at index 2 subscribed.
UnsubscribeBeforeSubscribeWitness ==
    /\ Len(rooms) = 3
    /\ nKeys = 2
    /\ selected = 2
    /\ rpc = "poll"
    /\ AsRoomId(rooms[1]) # AsRoomId(rooms[3])
    /\ subLog = <<<<"unsubscribe", AsRoomId(rooms[1])>>,
                  <<"subscribe", AsRoomId(rooms[3])>>>>
    /\ curSub.room = AsRoomId(rooms[3])

\* C7 as claimed: N calls of next() on a list of length N >= 1 give back the
\* starting selection, whatever it was.
NextCycleReturns ==
    (Len(rooms) >= 1 /\ calls = Len(rooms)) => selected = startSel

\* C7 amended: N calls of next() on a list of length N >= 1 give back the
\* starting selection when it was an index of the list.
NextCycleReturnsToIndex ==
    (Len(rooms) >= 1 /\ calls = Len(rooms) /\ startSel \in 0..(Len(rooms) - 1))
        => selected = startSel

\* C7 witness: three calls on a 3-element list, started and ended at index 1.
NextCycleReturnsToIndexWitness ==
    /\ Len(rooms) = 3
    /\ calls = 3
    /\ startSel = 1
    /\ selected = 1

\* C8: a j or k key on an empty list leaves the selection at none, reports no
\* change (subscribe_to_selected_room is not entered) and touches no subscription.
EmptyListNoChange ==
    [][(nKeys' # nKeys /\ Len(rooms) = 0) =>
          /\ selected' = None
          /\ rpc' = "poll"
          /\ subscribed' = subscribed
          /\ curSub' = curSub
          /\ subLog' = subLog]_vars

\* C8 witness: a room was selected and subscribed, the list became empty, and a
\* key then cleared the selection.
EmptyListNoChangeWitness ==
    /\ Len(rooms) = 0
    /\ selected = None
    /\ curSub # NoHandle
    /\ rpc = "poll"

\* C9 as claimed: a j or k key on a one-element list selects index 0 and
\* reports no change, whatever was selected before.
SingleElementNoChange ==
    [][(nKeys' # nKeys /\ Len(rooms) = 1) =>
          (selected' = 0 /\ rpc' = "poll")]_vars

\* C9 amended: a j or k key on a one-element list selects index 0 when index 0
\* or nothing was selected; it reports no change when index 0 was selected and
\* reports index 0 when nothing was.
SingleElementReselects ==
    [][(nKeys' # nKeys /\ Len(rooms) = 1 /\ selected \in {None, 0}) =>
          /\ selected' = 0
          /\ selected = 0 => rpc' = "poll"
          /\ selected = None => (rpc' = "unsub" /\ arg' = 0)]_vars

\* C9 witness: on the one-element list the first key selected index 0 and the
\* second key changed nothing.
SingleElementReselectsWitness ==
    /\ nDiffs = 0
    /\ Len(rooms) = 1
    /\ nKeys = 2
    /\ selected = 0
    /\ rpc = "poll"

\* Subscriptions change only inside subscribe_to_selected_room, which is
\* entered only by a key whose next()/previous() returned the new index.
ChurnOnlyOnChange ==
    /\ (subscribed' # subscribed \/ curSub' # curSub) => rpc \in {"unsub", "lookup"}
    /\ (rpc' = "unsub" /\ rpc # "unsub") => (nKeys' # nKeys /\ arg' = selected')

SupersededTimerNeverFires ==
    /\ \A t \in DOMAIN timers :
          timers[t].supAt = "sleep" => timers[t].st \in {"sleep", "cancelled"}
    /\ (/\ clearHandle # None
        /\ \A t \in DOMAIN timers \ {clearHandle} : timers[t].supAt \in {"sleep", "done"})
       => status = IF timers[clearHandle].st = "done" THEN NoStatus
                    ELSE timers[clearHandle].msg

\* C11 witness: the first message was superseded within its 4 seconds, its task
\* was cancelled, and the task of the second message has cleared the status.
SupersededTimerNeverFiresWitness ==
    /\ Len(timers) = 2
    /\ timers[1].supAt = "sleep"
    /\ timers[1].st = "cancelled"
    /\ timers[1].msg # timers[2].msg
    /\ timers[2].st = "done"
    /\ status = NoStatus

\* C12: a clearing task never writes none after its message was superseded,
\* wherever it was when the superseding call aborted it.
SupersedingCallWins ==
    \A t \in DOMAIN timers :
        timers[t].st = "done" => timers[t].supAt \in {"no", "done"}


\* C13: a cancellation is requested of listen_task or of a timeline task only
\* once the sync service has stopped and the wait_for_termination task has
\* seen it leave Running.
CancelAfterStopObserved ==
    (listenAbort \/ \E t \in DOMAIN tasks : tasks[t].st \in {"aborted", "cancelled"})
        => (~syncRunning /\ waiter = "done")

\* C14: when run() has returned Ok, listen_task and every timeline task ever
\* spawned have been asked to abort.
ShutdownAbortsEveryTask ==
    rpc = "done" =>
        (listenAbort /\ \A t \in DOMAIN tasks : tasks[t].st \in {"aborted", "cancelled"})


\* C15: a diff with an index out of range leaves the rooms mutex usable and
\* the render loop running (the diff is refused, nothing panics).
OutOfRangeDiffRefused ==
    roomsLock # "poisoned" /\ rpc # "panicked"


\* C16: a timeline that fails to initialize never ends listen_task (with no
\* diff out of range in the stream, listen_task never panics).
InitFailureTolerated ==
    lpc # "panicked"

\* The room ids of a sequence of ids, as a set.
IdSet(ids) == {ids[i] : i \in DOMAIN ids}

\* C17: after a failed resolution nothing is added for the id, neither to the
\* maps nor to the maps of the round nor to the timeline tasks, and the round
\* goes on with the ids after it; and every round starts with all the ids of
\* the list that have no handle in ui_rooms, the ones that failed before
\* among them.
ResolveFailureSkipsAndRetries ==
    [][/\ (lpc' = "resolve_err" \/ lpc = "resolve_err") =>
             /\ lpc \in {"resolve", "resolve_err"}
             /\ uiRooms' = uiRooms /\ timelines' = timelines /\ tasks' = tasks
             /\ newUi' = newUi /\ newTl' = newTl
       /\ (lpc = "resolve_err" /\ lpc' # "resolve_err") =>
             /\ allRooms' = Tail(allRooms)
             /\ lpc' = IF allRooms' = <<>> THEN "extend_ui" ELSE "resolve"
       /\ (lpc = "apply" /\ lpc' \in {"resolve", "extend_ui"}) =>
             \A r \in IdSet(CollectRoomIds(rooms)) :
                 uiRooms[r] = NoHandle => r \in IdSet(allRooms')]_vars

\* C17 witness: the resolution of r1 has just failed in a round that has r2
\* still to do, and no room has a handle yet.
ResolveFailureSkipsAndRetriesWitness ==
    /\ lpc = "resolve_err"
    /\ allRooms = <<"r1", "r2">>
    /\ uiRooms = EmptyUi
    /\ tasks = <<>>


\* C18: whatever the outcome of an awaited mark-as-read or stop command, the
\* render loop goes on to its next iteration, and mark-as-read leaves a status
\* message behind.
CommandFailureSurfaced ==
    [][(rpc \in {"mark", "stop"} /\ rpc' # rpc) =>
          /\ rpc' = "poll"
          /\ rpc = "mark" => status' # NoStatus]_vars

\* C19: the render loop is left by the quit key only: it never returns an
\* error and never panics.
LoopLeftOnlyByQuit ==
    rpc \notin {"error", "panicked"}


\* Keys of a map from room ids, given the value that stands for "no entry".
Keys(m, none) == {r \in RoomIds : m[r] # none}

\* C20: when a round in which no call failed ends, every room id carried by
\* an entry of the list is a key of ui_rooms, with a handle of that room, and
\* a key of timelines, with a timeline task of that room; and when the list
\* is [Filled(r)] after the only diff ever emitted, r is the only key of both.
BatchResolvesEveryRoom ==
    [][(lpc = "extend_tl" /\ lpc' = "next" /\ roundOk) =>
          /\ \A r \in IdSet(CollectRoomIds(rooms)) :
                /\ uiRooms'[r] # NoHandle
                /\ uiRooms'[r].room = r
                /\ timelines'[r] # None
                /\ tasks'[timelines'[r]].room = r
          /\ \A r \in RoomIds :
                (nDiffs = 1 /\ rooms = <<Filled(r)>>) =>
                    /\ Keys(uiRooms', NoHandle) = {r}
                    /\ Keys(timelines', None) = {r}]_vars

\* C20 witness: from the empty list the batch [PushBack(Filled(r1))] has been
\* processed, and r1 is the only key of ui_rooms and of timelines.
BatchResolvesEveryRoomWitness ==
    /\ lpc = "next"
    /\ nDiffs = 1
    /\ stream = <<>>
    /\ rooms = <<Filled("r1")>>
    /\ Len(tasks) = 1
    /\ Keys(uiRooms, NoHandle) = {"r1"}
    /\ Keys(timelines, None) = {"r1"}


\* ------------------------------------------------ the mutexes and their guards
\* The three shared containers (room_list_entries.items, ui_rooms, timelines),
\* the status text and the items of a timeline are each behind a std Mutex.
Containers == {"list", "map", "tlmap"}
Mutexes == Containers \cup {"status", "items"}

\* What a function does, as far as mutexes are concerned: lock() a mutex, drop
\* its guard, call a service of the SDK, or read SDK state held in memory.
Lock(m) == [op |-> "lock", on |-> m]
Unlock(m) == [op |-> "unlock", on |-> m]
Call(c) == [op |-> "call", on |-> c]
Read(c) == [op |-> "read", on |-> c]

\* listen_task, one round: the guard of the list lives to the end of the block
\* that computes all_rooms; the other guards are temporaries of one statement.
ListenTaskGuards ==
    <<Call("stream.next"), Lock("list"), Unlock("list"),
      Lock("map"), Unlock("map"),
      Call("room"), Call("default_room_timeline_builder"),
      Call("init_timeline_with_builder"), Call("timeline.subscribe"),
      Lock("map"), Unlock("map"), Lock("tlmap"), Unlock("tlmap")>>

\* A timeline task: the guard of the items lives for one diff.
TimelineTaskGuards == <<Call("stream.next"), Lock("items"), Unlock("items")>>

\* The task spawned by set_status_message.
ClearStatusGuards == <<Call("sleep"), Lock("status"), Unlock("status")>>

\* set_status_message itself: the guard is a temporary of the assignment.
SetStatusMessageGuards == <<Lock("status"), Unlock("status")>>

\* mark_as_read: both guards are temporaries inside the closures of and_then,
\* dropped when the closure returns.
MarkAsReadGuards ==
    <<Lock("list"), Unlock("list"), Lock("map"), Unlock("map"),
      Call("mark_as_read")>> \o SetStatusMessageGuards

\* StatefulList::next and previous: the guard is a temporary of the let.
StatefulListGuards == <<Lock("list"), Unlock("list")>>

\* The same function taking ui_rooms before the list.
SubscribeToSelectedRoomGuardsReversed ==
    <<Call("unsubscribe"), Lock("map"), Lock("list"), Unlock("list"),
      Call("subscribe"), Unlock("map")>>

\* subscribe_to_selected_room: the guard of the list is a temporary of the
\* scrutinee of `if let`, so it lives to the end of the if-let body; the guard
\* of ui_rooms is a temporary inside the closure.
SubscribeToSelectedRoomGuards ==
    <<Call("unsubscribe"), Lock("list"), Lock("map"), Unlock("map"),
      Call("subscribe"), Unlock("list")>>

\* render_left: the guard of the list lives for the whole let statement, the
\* closure of map (which reads the client's rooms) included.
RenderLeftGuards == <<Lock("list"), Read("get_room"), Unlock("list")>>

\* render_right in ReadReceipts mode: the guard of ui_rooms is a temporary of
\* the scrutinee of the match and lives through its arms.
RenderRightGuards ==
    <<Lock("list"), Unlock("list"),
      Lock("map"), Read("read_receipts"), Unlock("map")>>

\* render_right in TimelineItems mode, with render_timeline.
RenderTimelineGuards ==
    <<Lock("list"), Unlock("list"),
      Lock("tlmap"), Unlock("tlmap"), Lock("items"), Unlock("items")>>

\* render_footer: the guard lives to the end of the if-let.
RenderFooterGuards == <<Lock("status"), Unlock("status")>>

\* run() after the render loop.
RunGuards == <<Call("stop"), Lock("tlmap"), Unlock("tlmap")>>

\* The functions and what each does with the mutexes.
GuardsOf ==
    [listen_task |-> ListenTaskGuards,
     timeline_task |-> TimelineTaskGuards,
     clear_status |-> ClearStatusGuards,
     draw_receipts |-> RenderLeftGuards \o RenderRightGuards \o RenderFooterGuards,
     draw_timeline |-> RenderLeftGuards \o RenderTimelineGuards \o RenderFooterGuards,
     draw_nothing |-> RenderLeftGuards \o RenderFooterGuards,
     next |-> StatefulListGuards,
     subscribe_to_selected_room |-> SubscribeToSelectedRoomGuards,
     mark_as_read |-> MarkAsReadGuards,
     start |-> <<Call("start")>>,
     stop |-> <<Call("stop")>>,
     run |-> RunGuards]

\* The functions each path executes.
FunctionsOf(p) ==
    CASE p = "listen" -> {"listen_task"}
      [] p = "timeline" -> {"timeline_task"}
      [] p = "expiry" -> {"clear_status"}
      [] p = "render" -> {"draw_receipts", "draw_timeline", "draw_nothing", "next",
                          "subscribe_to_selected_room", "mark_as_read", "start",
                          "stop", "run"}

\* The render loop is over: run() has returned.
Exited == [fn |-> "exited", i |-> 0]

Busy(p) == site[p].fn \notin {"idle", "exited"}
Site(p) == GuardsOf[site[p].fn][site[p].i]
Holder(m) == {q \in Paths : \E k \in DOMAIN guards[q] : guards[q][k] = m}

programVars == <<envVars, rooms, roomsLock, listenVars, mapVars, tasks, tlInit,
                 listenAbort, renderVars, focusVars, waiter, statusVars>>

\* The path moves to its next lock site, or leaves the function.
Advance(p) ==
    LET at == site[p] IN
    site' = [site EXCEPT ![p] =
                IF at.i < Len(GuardsOf[at.fn]) THEN [fn |-> at.fn, i |-> at.i + 1]
                ELSE IF at.fn = "run" THEN Exited
                ELSE Idle]

\* The path begins one of its functions.
Enter(p, f) ==
    /\ site[p] = Idle
    /\ f \in FunctionsOf(p)
    /\ site' = [site EXCEPT ![p] = [fn |-> f, i |-> 1]]
    /\ UNCHANGED <<guards, programVars, deviceVars>>

\* Mutex::lock(): blocks while any path (the caller included) holds a guard.
Acquire(p) ==
    /\ Busy(p)
    /\ Site(p).op = "lock"
    /\ Holder(Site(p).on) = {}
    /\ guards' = [guards EXCEPT ![p] = Append(@, Site(p).on)]
    /\ Advance(p)
    /\ UNCHANGED <<programVars, deviceVars>>

\* The guard is dropped.
Release(p) ==
    /\ Busy(p)
    /\ Site(p).op = "unlock"
    /\ guards' = [guards EXCEPT ![p] = SelectSeq(@, LAMBDA m : m # Site(p).on)]
    /\ Advance(p)
    /\ UNCHANGED <<programVars, deviceVars>>

\* A call of the SDK that goes to the network or to the sync service.
ExternalCall(p) ==
    /\ Busy(p)
    /\ Site(p).op = "call"
    /\ Advance(p)
    /\ UNCHANGED <<guards, programVars, deviceVars>>

\* A read of state the SDK holds in memory.
MemoryRead(p) ==
    /\ Busy(p)
    /\ Site(p).op = "read"
    /\ Advance(p)
    /\ UNCHANGED <<guards, programVars, deviceVars>>

NextGuards ==
    \/ \E p \in Paths, f \in DOMAIN GuardsOf : Enter(p, f)
    \/ \E p \in Paths : Acquire(p)
    \/ \E p \in Paths : Release(p)
    \/ \E p \in Paths : ExternalCall(p)
    \/ \E p \in Paths : MemoryRead(p)

SpecGuards == Init /\ [][NextGuards]_vars

\* ------------------------------------------------------------------- C21
\* The paths a path waits for: the holders of the mutex it is about to lock.
WaitsFor(p) ==
    IF Busy(p) /\ Site(p).op = "lock" THEN Holder(Site(p).on) ELSE {}

\* Every path of S waits for a guard that only paths of S can drop.
DeadlockedSet(S) ==
    /\ S # {}
    /\ \A p \in S : WaitsFor(p) # {} /\ WaitsFor(p) \subseteq S

Rank(m) == CASE m = "list" -> 1 [] m = "map" -> 2 [] m = "tlmap" -> 3

\* C21: a path that holds the guards of two shared containers took them in
\* the order list, projection map (ui_rooms), timeline map; no path keeps a
\* guard after it left the function that took it; and no set of paths waits
\* in a cycle for guards held inside the set (no deadlock on a guard).
LockOrderKeptAndNoDeadlock ==
    /\ \A p \in Paths : \A j, k \in DOMAIN guards[p] :
          (j < k /\ guards[p][j] \in Containers /\ guards[p][k] \in Containers)
             => Rank(guards[p][j]) < Rank(guards[p][k])
    /\ \A p \in Paths : ~Busy(p) => guards[p] = <<>>
    /\ \A S \in SUBSET Paths : ~DeadlockedSet(S)

\* The render loop holds the guards of the list and of ui_rooms together (in
\* subscribe_to_selected_room) while listen_task waits for the list.
LockOrderKeptAndNoDeadlockWitness ==
    /\ guards["render"] = <<"list", "map">>
    /\ WaitsFor("listen") = {"render"}

\* ------------------------------------------------------------------- C22
\* C22: a path that makes a network or external-service call (room, timeline
\* builder, init_timeline, timeline subscribe, room subscribe/unsubscribe,
\* mark_as_read, start, stop) holds no guard while it makes the call.
NoGuardHeldAcrossCall ==
    \A p \in Paths : (Busy(p) /\ Site(p).op = "call") => guards[p] = <<>>

\* ------------------------------------------------------------------- C23
\* A clearing task that was spawned, has not written None yet, and is not
\* cancelled: an abort() cancels a task that is suspended in sleep (or woken
\* and not yet polled), and has no effect on a task that is past its sleep.
Outstanding(t) ==
    \/ timers[t].st = "running"
    \/ timers[t].st \in {"sleep", "woken"} /\ ~timers[t].aborted

\* C23: at most one task clearing the status message is outstanding (started,
\* not cancelled and not finished).
AtMostOneExpiryTask ==
    Cardinality({t \in DOMAIN timers : Outstanding(t)}) <= 1

\* ------------------------------------------------------------------- C24
\* C24: a selection Some(i) is an index of the room list, i < len, also after
\* listen_task applied diffs that remove or clear entries.
SelectionWithinList ==
    selected # None => selected < Len(rooms)

\* ------------------------------------------------------------------- C25
\* listen_task, the 'S' key and the whole of run() after the quit key.
NextShutdown == ListenTask \/ QuitPath \/ Termination \/ KeyStop \/ StopReturn

\* The runtime polls every task that can run: the stop() awaited by run()
\* returns, run() goes on, and the wait_for_termination task is polled when
\* it is spawned and when the state it subscribed to changes.
ShutdownFairness ==
    /\ WF_vars(RunStop)
    /\ WF_vars(RunAbortTimelines)
    /\ WF_vars(RunJoin)
    /\ WF_vars(WaiterSubscribe)
    /\ WF_vars(WaiterObserve)

SpecShutdown == Init /\ [][NextShutdown]_vars /\ ShutdownFairness

\* C25: once the user has quit the render loop, run() eventually returns: Ok
\* after wait_for_termination has ended, or the error of stop().
ShutdownCompletes ==
    (rpc = "stopping") ~> (rpc \in {"done", "failed"})

\* ------------------------------------------------------------------- C26
\* The timer of sleep(4 s) fires, and the runtime polls a clearing task that
\* can run (to resume it after the sleep, to drop it once aborted, to let it
\* lock the status and write None).
StatusFairness ==
    \A t \in 1..MaxTimers :
        /\ WF_vars(t \in DOMAIN timers /\ TimerExpire(t))
        /\ WF_vars(t \in DOMAIN timers /\ TimerResume(t))
        /\ WF_vars(t \in DOMAIN timers /\ TimerCancel(t))
        /\ WF_vars(t \in DOMAIN timers /\ TimerWrite(t))

SpecStatus == InitCommands /\ [][NextCommands]_vars /\ StatusFairness

\* C26: a status message is eventually cleared (the status reads None), and
\* a cleared status stays None until set_status_message is called again.
StatusEventuallyCleared ==
    /\ (status # NoStatus) ~> (status = NoStatus)
    /\ [][(status = NoStatus /\ status' # NoStatus)
            => Len(timers') > Len(timers)]_vars

\* The clearing task of the last message has written None.
StatusEventuallyClearedWitness ==
    /\ timers # <<>>
    /\ timers[Len(timers)].st = "done"
    /\ status = NoStatus

\* --------------------------------------------- DehydratedDevices::rehydrate
MaxCalls == 2

\* The arguments of rehydrate.
PickleKeys == {"key1", "key2"}
DeviceIds == {"DEVICE1", "DEVICE2"}
DeviceData == {"data1", "data2"}

\* Result<RehydratedDevice, DehydrationError>
Ok(device) == [ok |-> TRUE, val |-> device]
Err(error) == [ok |-> FALSE, val |-> error]

\* olm_machine.dehydrated_devices().rehydrate(..).await of the crypto crate:
\* the rehydrated device, or a DehydrationError.
OlmRehydrate(pickle_key, device_id, device_data) ==
    {Ok(device_id), Err("DehydrationError")}

\* rehydrate: without an olm machine, ok_or(Error::NoOlmMachine) is an Err and
\* unwrap() panics in the caller's task; with one, the result of the crypto
\* crate is returned as it is.
Rehydrate(pickle_key, device_id, device_data) ==
    /\ caller = "running"
    /\ Len(returned) < MaxCalls
    /\ IF olmMachine
          THEN /\ \E res \in OlmRehydrate(pickle_key, device_id, device_data) :
                     returned' = Append(returned,
                                        [key |-> pickle_key, device |-> device_id,
                                         data |-> device_data, res |-> res])
               /\ UNCHANGED caller
          ELSE /\ caller' = "aborted"
               /\ UNCHANGED returned
    /\ UNCHANGED <<olmMachine, programVars, guardVars>>

\* A client with or without an olm machine (logged in or not), and a caller
\* that has not called rehydrate yet.
InitDevice ==
    /\ upstream = <<>>
    /\ selected = None
    /\ startSel = None
    /\ InitCommon
    /\ olmMachine \in BOOLEAN
    /\ caller = "running"
    /\ returned = <<>>

NextDevice ==
    \E pickle_key \in PickleKeys, device_id \in DeviceIds, device_data \in DeviceData :
        Rehydrate(pickle_key, device_id, device_data)

SpecDevice == InitDevice /\ [][NextDevice]_vars

\* ------------------------------------------------------------------- C27
\* C27: every call of rehydrate returns a value (a rehydrated device or a
\* DehydrationError), also on a client without an olm machine; the caller is
\* never aborted.
RehydrateAlwaysReturns ==
    caller # "aborted"
====
